---- MODULE Spec2Model ----
(***************************************************************************)
(* Tank simulator (Slave.py) and tank controller (Master.py) sharing one   *)
(* Modbus register store.  The simulator thread advances the level once a  *)
(* second; the controller polls the store, runs the Activation-A latch and *)
(* the pump/valve policy, and writes changed coils back.  Every store      *)
(* operation (one getValues / setValues / Modbus request) is one step.     *)
(***************************************************************************)
EXTENDS Integers, Sequences, FiniteSets, TLC

\* ---------------------------------------------------------------- bounds
\* operator commands handled by the controller in one run
MaxKeys == 1
\* simulator ticks that may start during one controller iteration, or after
\* the controller has stopped
SimPerPoll == 1
\* iterations of a run in which a character is pending at every iteration
MaxOps == 3

\* ------------------------------------------------------ program constants
MAX_LEVEL == 1000
MIN_LEVEL == 0
PUMP_RATE == 5
DRAIN_RATE == 3

\* Python's None and a present value
None == <<>>
Some(v) == <<v>>

\* characters the keyboard can deliver; "x" stands for any unbound key
Keys == {"q", "a", "p", "v", "f", "d", "t", "x"}

VARIABLES
    \* RegisterStore (Slave.py `store`)
    coils,                \* coils[0] = pump, coils[1] = valve
    hr,                   \* holding register 0 = tank level
    \* simulate_tank locals
    sim_pc, pump_on, valve_open, sim_level, last_report,
    \* what simulate_tank logged: threshold event of the latest tick, and the
    \* new_level of the latest tick and of the one before it (-1: no tick yet)
    reported, last_new, prev_new,
    \* Master.py module state
    pc, auto_control, pump_override, valve_override, exit_flag, skip_next_poll,
    activation_a_active, activation_a_timer,
    \* Master.py loop locals
    rr, rc, level, pump_state, valve_state, target_pump,
    \* observation of the current controller iteration
    key,                  \* key handled ("" when none)
    probe,                \* outcome of the 't' probe ("" when none)
    reads,                \* sensor reads issued
    writes,               \* coil writes issued, as <<address, value>>
    lost,                 \* those of them the server did not apply
    iter_act,             \* <<activation_a_active, activation_a_timer>> at its start
    read_failed,          \* the poll of this iteration hit a read error
    a_ticks,              \* poll ticks run by the latch since the arming tick
    \* environment
    keys_left, ticks_left

simVars == <<sim_pc, pump_on, valve_open, sim_level, last_report, reported,
             last_new, prev_new>>
ctlVars == <<auto_control, pump_override, valve_override, exit_flag,
             skip_next_poll>>
actVars == <<activation_a_active, activation_a_timer, a_ticks>>
locVars == <<rr, rc, level, pump_state, valve_state, target_pump>>
obsVars == <<key, probe, reads, writes, lost, iter_act, read_failed>>
vars == <<coils, hr, simVars, pc, ctlVars, actVars, locVars, obsVars,
          keys_left, ticks_left>>

\* a response not yet received
NoResp == [st |-> "unset", data |-> <<>>]

\* the state after construction, with k characters still to arrive on stdin
InitWith(k) ==
    /\ coils = [i \in 0..1 |-> FALSE]
    /\ hr = 500
    /\ sim_pc = "read_coils"
    /\ pump_on = FALSE /\ valve_open = FALSE /\ sim_level = 500
    /\ last_report = "none"
    /\ reported = "none" /\ last_new = -1 /\ prev_new = -1
    /\ pc = "loop"
    /\ auto_control = TRUE
    /\ pump_override = None
    /\ valve_override = None
    /\ exit_flag = FALSE
    /\ skip_next_poll = FALSE
    /\ activation_a_active = FALSE
    /\ activation_a_timer = 0
    /\ rr = NoResp /\ rc = NoResp
    /\ level = 500 /\ pump_state = FALSE /\ valve_state = FALSE
    /\ target_pump = FALSE
    /\ key = "" /\ probe = "" /\ reads = 0 /\ writes = {} /\ lost = {}
    /\ iter_act = <<FALSE, 0>>
    /\ read_failed = FALSE
    /\ a_ticks = 0
    /\ keys_left = k
    /\ ticks_left = SimPerPoll

Init == InitWith(MaxKeys)

\* ------------------------------------------------------------ Slave.py
Max(a, b) == IF a >= b THEN a ELSE b
Min(a, b) == IF a <= b THEN a ELSE b

\* variant: the two rates are swapped
Delta_Swapped(p, v) == (IF p THEN DRAIN_RATE ELSE 0) - (IF v THEN PUMP_RATE ELSE 0)

\* line 47: delta = (PUMP_RATE if pump_on else 0) - (DRAIN_RATE if valve_open else 0)
Delta(p, v) == (IF p THEN PUMP_RATE ELSE 0) - (IF v THEN DRAIN_RATE ELSE 0)

\* variant: the upper clamp is missing
NewLevel_NoUpperClamp(lv, p, v) == Max(MIN_LEVEL, lv + Delta(p, v))

\* line 48: new_level = max(MIN_LEVEL, min(MAX_LEVEL, level + delta))
NewLevel(lv, p, v) == Max(MIN_LEVEL, Min(MAX_LEVEL, lv + Delta(p, v)))

\* lines 55-65: the elif chain; <<event logged, new last_report>>
Threshold(new_level, last) ==
    IF new_level = MIN_LEVEL /\ last # "empty" THEN <<"empty", "empty">>
    ELSE IF new_level = MAX_LEVEL \div 2 /\ last # "half" THEN <<"half", "half">>
    ELSE IF new_level = MAX_LEVEL /\ last # "full" THEN <<"full", "full">>
    ELSE IF MIN_LEVEL < new_level /\ new_level < MAX_LEVEL THEN <<"none", "none">>
    ELSE <<"none", last>>

\* line 41-43: coils = store.getValues(1, 0, count=2)
SimReadCoils ==
    /\ sim_pc = "read_coils"
    /\ ticks_left > 0
    /\ pump_on' = coils[0]
    /\ valve_open' = coils[1]
    /\ sim_pc' = "read_level"
    /\ ticks_left' = ticks_left - 1
    /\ UNCHANGED <<coils, hr, sim_level, last_report, reported, last_new,
                   prev_new, pc, ctlVars, actVars, locVars, obsVars, keys_left>>

\* line 44: level = store.getValues(3, 0, count=1)[0]
SimReadLevel ==
    /\ sim_pc = "read_level"
    /\ sim_level' = hr
    /\ sim_pc' = "write_level"
    /\ UNCHANGED <<coils, hr, pump_on, valve_open, last_report, reported,
                   last_new, prev_new, pc, ctlVars, actVars, locVars, obsVars,
                   keys_left, ticks_left>>

\* variant: the tick also stores back the coil values it read at line 41
SimWriteLevel_WritesCoilsBack ==
    /\ sim_pc = "write_level"
    /\ LET new_level == NewLevel(sim_level, pump_on, valve_open)
           th == Threshold(new_level, last_report)
       IN /\ hr' = new_level
          /\ reported' = th[1]
          /\ last_report' = th[2]
          /\ prev_new' = last_new
          /\ last_new' = new_level
    /\ coils' = [i \in 0..1 |-> IF i = 0 THEN pump_on ELSE valve_open]
    /\ sim_pc' = "read_coils"
    /\ UNCHANGED <<pump_on, valve_open, sim_level, pc, ctlVars, actVars,
                   locVars, obsVars, keys_left, ticks_left>>

\* lines 47-67: store.setValues(3, 0, [new_level]), threshold log, sleep
SimWriteLevel ==
    /\ sim_pc = "write_level"
    /\ LET new_level == NewLevel(sim_level, pump_on, valve_open)
           th == Threshold(new_level, last_report)
       IN /\ hr' = new_level
          /\ reported' = th[1]
          /\ last_report' = th[2]
          /\ prev_new' = last_new
          /\ last_new' = new_level
    /\ sim_pc' = "read_coils"
    /\ UNCHANGED <<coils, pump_on, valve_open, sim_level, pc, ctlVars, actVars,
                   locVars, obsVars, keys_left, ticks_left>>

\* ----------------------------------------------------------- Master.py
\* observation of an iteration is cleared where the iteration ends; the loop
\* locals are dead there (each is assigned again before its next use)
EndIteration ==
    /\ key' = "" /\ probe' = "" /\ reads' = 0 /\ writes' = {} /\ lost' = {}
    /\ read_failed' = FALSE
    /\ iter_act' = <<activation_a_active, activation_a_timer>>
    /\ rr' = NoResp /\ rc' = NoResp
    /\ level' = 500 /\ pump_state' = FALSE /\ valve_state' = FALSE
    /\ target_pump' = FALSE
    /\ ticks_left' = SimPerPoll

\* variant: while True
LoopCond_Always(ef) == TRUE

\* line 59: while not exit_flag
LoopCond(ef) == ~ef

\* line 59: while not exit_flag -- the loop ends, `finally` runs
Terminate ==
    /\ pc = "loop"
    /\ ~LoopCond(exit_flag)
    /\ pc' = "done"
    /\ UNCHANGED <<coils, hr, simVars, ctlVars, actVars, locVars, obsVars,
                   keys_left, ticks_left>>

\* line 65: select() reports no pending input
NoKey ==
    /\ pc = "loop"
    /\ LoopCond(exit_flag)
    /\ pc' = "skip_check"
    /\ UNCHANGED <<coils, hr, simVars, ctlVars, actVars, locVars, obsVars,
                   keys_left, ticks_left>>

\* line 77 / line 80: not x if x is not None else True
Toggle(x) == IF x # None THEN Some(~x[1]) ELSE Some(TRUE)

\* variant: skip_next_poll is never set
ProbeSkips_Never(out) == FALSE

\* lines 95-113: skip_next_poll is set only after the send and the drain of
\* the reply went through without an exception
ProbeSkips(out) == out = "sent"

\* lines 72, 76, 83, 88: auto_control after the key
AutoAfter(ch, auto) ==
    CASE ch = "a" -> ~auto
      [] ch \in {"p", "f", "d"} -> FALSE
      [] OTHER -> auto

\* variant: 'a' leaves a pump override in place when it turns auto on
PumpOverrideAfter_AKeeps(ch, auto, po) ==
    CASE ch = "p" -> Toggle(po)
      [] ch = "f" -> Some(TRUE)
      [] ch = "d" -> Some(FALSE)
      [] OTHER -> po

\* lines 73, 77, 84, 89: pump_override after the key (auto: auto_control
\* before the key)
PumpOverrideAfter(ch, auto, po) ==
    CASE ch = "a" -> IF ~auto THEN None ELSE po
      [] ch = "p" -> Toggle(po)
      [] ch = "f" -> Some(TRUE)
      [] ch = "d" -> Some(FALSE)
      [] OTHER -> po

\* variant: 'a' drops the valve override as it drops the pump override
ValveOverrideAfter_AClears(ch, vo) ==
    CASE ch = "a" -> None
      [] ch = "v" -> Toggle(vo)
      [] ch = "f" -> Some(FALSE)
      [] ch = "d" -> Some(TRUE)
      [] OTHER -> vo

\* lines 80, 85, 90: valve_override after the key
ValveOverrideAfter(ch, vo) ==
    CASE ch = "v" -> Toggle(vo)
      [] ch = "f" -> Some(FALSE)
      [] ch = "d" -> Some(TRUE)
      [] OTHER -> vo

\* lines 66-113: one character read and dispatched; out is what became of the
\* raw frame of 't' ("sent", "failed": send or drain raised, "nosocket")
HandleKey(ch, out) ==
    /\ pc = "loop"
    /\ LoopCond(exit_flag)
    /\ keys_left > 0
    /\ keys_left' = keys_left - 1
    /\ key' = ch
    /\ probe' = out
    /\ pc' = "skip_check"
    /\ exit_flag' = IF ch = "q" THEN TRUE ELSE exit_flag
    /\ auto_control' = AutoAfter(ch, auto_control)
    /\ pump_override' = PumpOverrideAfter(ch, auto_control, pump_override)
    /\ valve_override' = ValveOverrideAfter(ch, valve_override)
    /\ skip_next_poll' = IF ch = "t" /\ ProbeSkips(out) THEN TRUE
                         ELSE skip_next_poll
    /\ UNCHANGED <<coils, hr, simVars, actVars, locVars, reads, writes, lost,
                   iter_act, read_failed, ticks_left>>

\* lines 115-118: if skip_next_poll: ... sleep; continue
SkipCheck ==
    /\ pc = "skip_check"
    /\ IF skip_next_poll
       THEN /\ skip_next_poll' = FALSE
            /\ pc' = "loop"
            /\ EndIteration
            /\ UNCHANGED <<coils, hr, simVars, auto_control, pump_override,
                           valve_override, exit_flag, actVars, keys_left>>
       ELSE /\ pc' = "read_regs"
            /\ UNCHANGED <<coils, hr, simVars, ctlVars, actVars, locVars,
                           obsVars, keys_left, ticks_left>>

\* line 121: rr = client.read_holding_registers(0, count=1)
ReadRegs(st) ==
    /\ pc = "read_regs"
    /\ rr' = [st |-> st, data |-> IF st = "ok" THEN <<hr>> ELSE <<>>]
    /\ reads' = reads + 1
    /\ pc' = "read_coils"
    /\ UNCHANGED <<coils, hr, simVars, ctlVars, actVars, rc, level, pump_state,
                   valve_state, target_pump, key, probe, writes, lost, iter_act,
                   read_failed, keys_left, ticks_left>>

\* line 123: not rr or not rc or rr.isError() or rc.isError()
ReadError(r1, r2) == r1.st # "ok" \/ r2.st # "ok"

\* variant: `continue` in place of `break`
OnReadError_Retry == "loop"

\* lines 125, 132: break
OnReadError == "done"

\* lines 122-132: rc = client.read_coils(0, count=2), of which n bits come
\* back, then the error check and the unpacking of the two responses; the
\* responses are not used again once the loop is left
ReadCoils(st, n) ==
    /\ pc = "read_coils"
    /\ reads' = reads + 1
    /\ LET bits == IF st = "ok" THEN SubSeq(<<coils[0], coils[1]>>, 1, n)
                   ELSE <<>>
           resp == [st |-> st, data |-> bits]
       IN IF ReadError(rr, resp)
          THEN /\ pc' = OnReadError
               /\ read_failed' = TRUE
               /\ rr' = NoResp /\ rc' = NoResp
               /\ UNCHANGED <<level, pump_state, valve_state>>
          ELSE /\ level' = rr.data[1]
               /\ IF Len(bits) < 2
                  THEN /\ pc' = OnReadError
                       /\ read_failed' = TRUE
                       /\ rr' = NoResp /\ rc' = NoResp
                       /\ UNCHANGED <<pump_state, valve_state>>
                  ELSE /\ pc' = "arm"
                       /\ rc' = resp
                       /\ pump_state' = bits[1]
                       /\ valve_state' = bits[2]
                       /\ UNCHANGED <<rr, read_failed>>
    /\ UNCHANGED <<coils, hr, simVars, ctlVars, actVars, target_pump, key,
                   probe, writes, lost, iter_act, keys_left, ticks_left>>

\* variant: the window test lacks the `not activation_a_active` guard
ArmCond_NoGuard(active, lv) == 500 <= lv /\ lv <= 520

\* line 135: not activation_a_active and 500 <= level <= 520
ArmCond(active, lv) == ~active /\ 500 <= lv /\ lv <= 520

\* variant: expiry is tested with < instead of <=
DeactCond_Late(timer) == timer < 0

\* variant: expiry is tested one count early
DeactCond_Early(timer) == timer <= 1

\* line 142: activation_a_timer <= 0
DeactCond(timer) == timer <= 0

\* lines 135-136: the window test and activation_a_active = True
Arm ==
    /\ pc = "arm"
    /\ IF ArmCond(activation_a_active, level)
       THEN /\ activation_a_active' = TRUE
            /\ pc' = "arm_timer"
       ELSE /\ pc' = "count"
            /\ UNCHANGED activation_a_active
    /\ UNCHANGED <<coils, hr, simVars, ctlVars, activation_a_timer, a_ticks,
                   locVars, obsVars, keys_left, ticks_left>>

\* line 137: activation_a_timer = 5
ArmTimer ==
    /\ pc = "arm_timer"
    /\ activation_a_timer' = 5
    /\ a_ticks' = 0
    /\ pc' = "count"
    /\ UNCHANGED <<coils, hr, simVars, ctlVars, activation_a_active, locVars,
                   obsVars, keys_left, ticks_left>>

\* lines 140-141: if activation_a_active: activation_a_timer -= 1
Count ==
    /\ pc = "count"
    /\ IF activation_a_active
       THEN /\ activation_a_timer' = activation_a_timer - 1
            /\ a_ticks' = IF iter_act[1] THEN a_ticks + 1 ELSE a_ticks
            /\ pc' = "deact"
       ELSE /\ pc' = "pump"
            /\ UNCHANGED <<activation_a_timer, a_ticks>>
    /\ UNCHANGED <<coils, hr, simVars, ctlVars, activation_a_active, locVars,
                   obsVars, keys_left, ticks_left>>

\* lines 142-144: if activation_a_timer <= 0: activation_a_active = False
Deact ==
    /\ pc = "deact"
    /\ activation_a_active' = IF DeactCond(activation_a_timer) THEN FALSE
                              ELSE activation_a_active
    /\ pc' = "pump"
    /\ UNCHANGED <<coils, hr, simVars, ctlVars, activation_a_timer, a_ticks,
                   locVars, obsVars, keys_left, ticks_left>>

\* variant: the override is not consulted
PumpTarget_IgnoresOverride(po, auto, lv, ps) ==
    IF auto THEN (IF lv < 300 THEN TRUE
                  ELSE IF lv > 700 THEN FALSE
                  ELSE ps)
    ELSE ps

\* variant: the upper threshold is missing
PumpTarget_NoUpper(po, auto, lv, ps) ==
    IF po # None THEN po[1]
    ELSE IF auto THEN (IF lv < 300 THEN TRUE ELSE ps)
    ELSE ps

\* variant: the two thresholds are swapped
PumpTarget_ThresholdsSwapped(po, auto, lv, ps) ==
    IF po # None THEN po[1]
    ELSE IF auto THEN (IF lv < 700 THEN TRUE
                       ELSE IF lv > 300 THEN FALSE
                       ELSE ps)
    ELSE ps

\* variant: between the two thresholds the pump is switched off, not held
PumpTarget_NoHold(po, auto, lv, ps) ==
    IF po # None THEN po[1]
    ELSE IF auto THEN (IF lv < 300 THEN TRUE ELSE FALSE)
    ELSE ps

\* lines 147-157: the pump decision
PumpTarget(po, auto, lv, ps) ==
    IF po # None THEN po[1]
    ELSE IF auto THEN (IF lv < 300 THEN TRUE
                       ELSE IF lv > 700 THEN FALSE
                       ELSE ps)
    ELSE ps

\* variant: the override is written without comparing it to the state read
ValveTarget_NoCompare(vo, vs) == vo

\* line 164: the coil-1 command, None when no write is due
ValveTarget(vo, vs) == IF vo # None /\ vo[1] # vs THEN vo ELSE None

\* variant: the pump command goes to address 1
PumpAct_WrongCoil(ok) ==
    /\ pc = "pump"
    /\ LET t == PumpTarget(pump_override, auto_control, level, pump_state)
       IN /\ target_pump' = t
          /\ IF t # pump_state
             THEN /\ writes' = writes \cup {<<1, t>>}
                  /\ lost' = IF ok THEN lost ELSE lost \cup {<<1, t>>}
                  /\ coils' = IF ok THEN [coils EXCEPT ![1] = t] ELSE coils
             ELSE /\ ok
                  /\ UNCHANGED <<writes, lost, coils>>
    /\ pc' = "valve"
    /\ UNCHANGED <<hr, simVars, ctlVars, actVars, rr, rc, level, pump_state,
                   valve_state, key, probe, reads, iter_act, read_failed,
                   keys_left, ticks_left>>

\* lines 147-161: decide, then client.write_coil(0, target_pump) when it differs
\* from the state read; the reply is not looked at, ok says whether the server
\* applied the write
PumpAct(ok) ==
    /\ pc = "pump"
    /\ LET t == PumpTarget(pump_override, auto_control, level, pump_state)
       IN /\ target_pump' = t
          /\ IF t # pump_state
             THEN /\ writes' = writes \cup {<<0, t>>}
                  /\ lost' = IF ok THEN lost ELSE lost \cup {<<0, t>>}
                  /\ coils' = IF ok THEN [coils EXCEPT ![0] = t] ELSE coils
             ELSE /\ ok
                  /\ UNCHANGED <<writes, lost, coils>>
    /\ pc' = "valve"
    /\ UNCHANGED <<hr, simVars, ctlVars, actVars, rr, rc, level, pump_state,
                   valve_state, key, probe, reads, iter_act, read_failed,
                   keys_left, ticks_left>>

\* lines 164-166: client.write_coil(1, valve_override)
ValveAct(ok) ==
    /\ pc = "valve"
    /\ LET t == ValveTarget(valve_override, valve_state)
       IN IF t # None
          THEN /\ writes' = writes \cup {<<1, t[1]>>}
               /\ lost' = IF ok THEN lost ELSE lost \cup {<<1, t[1]>>}
               /\ coils' = IF ok THEN [coils EXCEPT ![1] = t[1]] ELSE coils
          ELSE /\ ok
               /\ UNCHANGED <<writes, lost, coils>>
    /\ pc' = "report"
    /\ UNCHANGED <<hr, simVars, ctlVars, actVars, locVars, key, probe, reads,
                   iter_act, read_failed, keys_left, ticks_left>>

\* line 169: Pump={'ON' if target_pump else 'OFF'}
LoggedPump == target_pump

\* line 169: Valve={'OPEN' if valve_state else 'CLOSED'}
LoggedValve == valve_state

\* lines 169-170: the state line (level, target_pump, valve_state) and the sleep
Report ==
    /\ pc = "report"
    /\ pc' = "loop"
    /\ EndIteration
    /\ UNCHANGED <<coils, hr, simVars, ctlVars, actVars, keys_left>>

ProbeOutcomes(ch) == IF ch = "t" THEN {"sent", "failed", "nosocket"} ELSE {""}

RespStatus == {"ok", "error", "none"}

Next ==
    \/ SimReadCoils
    \/ SimReadLevel
    \/ SimWriteLevel
    \/ Terminate
    \/ NoKey
    \/ \E ch \in Keys : \E out \in ProbeOutcomes(ch) : HandleKey(ch, out)
    \/ SkipCheck
    \/ \E st \in RespStatus : ReadRegs(st)
    \/ \E st \in RespStatus : \E n \in 0..2 : ReadCoils(st, n)
    \/ Arm
    \/ ArmTimer
    \/ Count
    \/ Deact
    \/ \E ok \in BOOLEAN : PumpAct(ok)
    \/ \E ok \in BOOLEAN : ValveAct(ok)
    \/ Report

Spec == Init /\ [][Next]_vars

\* the steps of the simulator thread and those of the controller process
SimNext == SimReadCoils \/ SimReadLevel \/ SimWriteLevel

CtlNext ==
    \/ Terminate
    \/ NoKey
    \/ \E ch \in Keys : \E out \in ProbeOutcomes(ch) : HandleKey(ch, out)
    \/ SkipCheck
    \/ \E st \in RespStatus : ReadRegs(st)
    \/ \E st \in RespStatus : \E n \in 0..2 : ReadCoils(st, n)
    \/ Arm
    \/ ArmTimer
    \/ Count
    \/ Deact
    \/ \E ok \in BOOLEAN : PumpAct(ok)
    \/ \E ok \in BOOLEAN : ValveAct(ok)
    \/ Report

\* both loops keep running: each sleeps a bounded time and goes on (line 170,
\* Slave.py line 67)
SpecFair == Init /\ [][Next]_vars /\ WF_vars(CtlNext) /\ WF_vars(SimNext)

\* the operator keeps typing: a character is pending at line 65 in each of the
\* first MaxOps iterations of the loop ("x" being a key without effect), and
\* the run is followed for those iterations
InitOps == InitWith(MaxOps)

NextOps ==
    \/ SimReadCoils
    \/ SimReadLevel
    \/ SimWriteLevel
    \/ Terminate
    \/ \E ch \in Keys : \E out \in ProbeOutcomes(ch) : HandleKey(ch, out)
    \/ SkipCheck
    \/ \E st \in RespStatus : ReadRegs(st)
    \/ \E st \in RespStatus : \E n \in 0..2 : ReadCoils(st, n)
    \/ Arm
    \/ ArmTimer
    \/ Count
    \/ Deact
    \/ \E ok \in BOOLEAN : PumpAct(ok)
    \/ \E ok \in BOOLEAN : ValveAct(ok)
    \/ Report

SpecOps == InitOps /\ [][NextOps]_vars

\* ================================================================ claims

\* C1: in every reachable state, under any interleaving of simulator ticks,
\* poll ticks and operator commands from level 500 with all coils off,
\* holding register 0 is an integer in [0,1000].
C1_LevelInRange == hr \in Int /\ 0 <= hr /\ hr <= 1000

\* C1 witness: a tick with the pump running has just been clamped at the top
C1_ClampedAtTop ==
    /\ sim_pc = "read_coils" /\ last_new = hr
    /\ pump_on /\ ~valve_open
    /\ sim_level + 5 > 1000
    /\ hr = 1000

\* C2: in every completed poll tick the pump target is pump_override if it is
\* set; otherwise, under auto_control, ON below 300, OFF above 700 and the
\* pump state just read in between; otherwise the pump state just read.
\* writeCoil(0, target) is issued in that tick iff target differs from the
\* pump state just read.
C2_PumpDecision ==
    pc \in {"valve", "report"} =>
        LET expected ==
                IF pump_override # None THEN pump_override[1]
                ELSE IF auto_control /\ level < 300 THEN TRUE
                ELSE IF auto_control /\ level > 700 THEN FALSE
                ELSE pump_state
        IN /\ target_pump = expected
           /\ (<<0, expected>> \in writes) <=> (expected # pump_state)
           /\ <<0, ~expected>> \notin writes

\* C2 witness: automatic control switches the pump on below 300
C2_AutoSwitchesOn ==
    /\ pc = "report"
    /\ pump_override = None /\ auto_control
    /\ level < 300 /\ ~pump_state
    /\ target_pump /\ <<0, TRUE>> \in writes

\* the threshold a level value stands for ("none": not a threshold)
ThresholdName(lv) ==
    IF lv = 0 THEN "empty" ELSE IF lv = 500 THEN "half"
    ELSE IF lv = 1000 THEN "full" ELSE "none"

\* C3: the simulator reports each threshold (Tank Empty at 0, Tank Half Full
\* at 500, Tank Full at 1000) exactly once per distinct entry of the level
\* into that value: over a run of consecutive ticks whose new level stays at
\* the same threshold, the report fires on the first tick of the run and on
\* no later tick of it.
C3_ReportOncePerEntry ==
    (sim_pc = "read_coils" /\ last_new \in {0, 500, 1000}) =>
        IF prev_new = last_new
        THEN reported = "none"
        ELSE reported = ThresholdName(last_new)

\* the latch has run in this poll tick (lines 135-144 are behind)
LatchDone == pc \in {"pump", "valve", "report"}

\* C4 (as stated): a poll tick that reads a level in [500,520] while
\* Activation-A is inactive activates it with timer = 5; the timer then
\* reaches 0 after exactly 5 subsequent poll ticks and Activation-A
\* deactivates at that tick, even if the level is still in [500,520].
C4_FiveSubsequentTicks ==
    /\ (pc = "count" /\ ~iter_act[1] /\ activation_a_active)
           => activation_a_timer = 5
    /\ (LatchDone /\ activation_a_active)
           => (activation_a_timer > 0 /\ a_ticks < 5)
    /\ (LatchDone /\ iter_act[1] /\ ~activation_a_active)
           => (activation_a_timer = 0 /\ a_ticks = 5)

\* C4 (amended): a poll tick that reads a level in [500,520] while
\* Activation-A is inactive activates it with timer = 5 and counts it down to
\* 4 in that same tick; the timer then reaches 0 after exactly 4 subsequent
\* poll ticks (the 5th poll tick counting the activating one) and
\* Activation-A deactivates at that tick, even if the level is still in
\* [500,520].
C4_FourSubsequentTicks ==
    /\ (pc = "count" /\ ~iter_act[1] /\ activation_a_active)
           => activation_a_timer = 5
    /\ (LatchDone /\ activation_a_active)
           => (activation_a_timer = 4 - a_ticks /\ a_ticks < 4)
    /\ (LatchDone /\ iter_act[1] /\ ~activation_a_active)
           => (activation_a_timer = 0 /\ a_ticks = 4)

\* C4 witness: the latch expires on a tick that still reads a level in the
\* window
C4_ExpiresInWindow ==
    /\ pc = "pump"
    /\ iter_act[1] /\ ~activation_a_active
    /\ a_ticks = 4
    /\ 500 <= level /\ level <= 520

\* C5: in every reachable state of the controller, between the statements of
\* a poll tick too, activation_a_timer > 0 implies activation_a_active, and
\* activation_a_timer stays within 0..5.
C5_TimerOnlyWhileActive ==
    /\ activation_a_timer > 0 => activation_a_active
    /\ activation_a_timer \in 0..5

\* C5 witness: between line 137 and line 141 the timer stands at 5
C5_JustArmed ==
    pc = "count" /\ activation_a_active /\ activation_a_timer = 5

\* C6: while Activation-A is active a poll tick that reads a level in
\* [500,520] does not re-arm it: on every completed poll tick that starts with
\* Activation-A active the timer decreases by exactly 1 and is never set back
\* to 5, whatever level is read.
C6_NoRearm ==
    (iter_act[1] /\ pc \in {"arm", "arm_timer", "count", "deact", "pump",
                            "valve", "report"}) =>
        /\ pc # "arm_timer"
        /\ activation_a_timer # 5
        /\ activation_a_timer \in {iter_act[2], iter_act[2] - 1}
        /\ LatchDone => activation_a_timer = iter_act[2] - 1

\* C6 witness: a tick that started active read a level in the window and
\* only counted down
C6_InWindowWhileActive ==
    /\ pc = "report"
    /\ iter_act[1]
    /\ 500 <= level /\ level <= 520
    /\ activation_a_timer = iter_act[2] - 1

\* C7: the valve coil changes only through an explicit override: the
\* controller issues writeCoil(1, v) in a poll tick iff valve_override is set
\* to v and v differs from the valve state just read; while valve_override is
\* none, coil 1 never changes, whatever the level, auto_control or
\* Activation-A state.
C7_ValveOnlyByOverride ==
    /\ [](\A v \in BOOLEAN :
            (<<1, v>> \in writes) <=>
                (pc = "report" /\ valve_override = Some(v)
                 /\ v # valve_state))
    /\ [][valve_override = None => coils'[1] = coils[1]]_vars

\* C7 witness: an override that differs from the state read opens the valve
C7_ValveOpened ==
    /\ pc = "report"
    /\ valve_override = Some(TRUE) /\ ~valve_state
    /\ <<1, TRUE>> \in writes
    /\ coils[1]

\* 1 for an actuator that is on, 0 for one that is off
Bit(b) == IF b THEN 1 ELSE 0

\* C8: each simulator tick writes to register 0 exactly
\* clamp(level + delta, 0, 1000), where level, pump_on and valve_open are the
\* values read at the start of that tick and delta = 5*pump_on - 3*valve_open
\* (one of 0, 5, -3, 2).
C8_TickWritesClampedSum ==
    (sim_pc = "read_coils" /\ last_new # -1) =>
        LET delta == 5 * Bit(pump_on) - 3 * Bit(valve_open)
            sum == sim_level + delta
        IN /\ delta \in {0, 5, -3, 2}
           /\ last_new = hr
           /\ hr = IF sum < 0 THEN 0 ELSE IF sum > 1000 THEN 1000 ELSE sum

\* C8 witness: a tick with pump and valve both on has added 2
C8_BothOn ==
    /\ sim_pc = "read_coils" /\ last_new # -1
    /\ pump_on /\ valve_open
    /\ hr = sim_level + 2

\* what the iteration has done to the Activation-A state: nothing
LatchUntouched == <<activation_a_active, activation_a_timer>> = iter_act

\* C9 (as stated): every 't' command causes the current iteration's poll
\* cycle to be skipped: the iteration that processes 't' performs no sensor
\* read, issues no coil write and does not change the Activation-A state, and
\* the probe leaves the RegisterStore unchanged.
C9_EveryTSkips ==
    /\ [](key = "t" =>
            (pc = "skip_check" /\ reads = 0 /\ writes = {} /\ LatchUntouched))
    /\ [][(key # "t" /\ key' = "t") => UNCHANGED <<coils, hr>>]_vars

\* C9 (amended): a 't' command whose probe is sent and drained without an
\* exception sets skip_next_poll, and the iteration that processes it
\* performs no sensor read, issues no coil write and does not change the
\* Activation-A state; when there is no socket, or the send or the drain
\* raises, skip_next_poll stays clear and the same iteration goes on to a
\* normal poll.  In either case the probe leaves the RegisterStore unchanged.
C9_SentProbeSkips ==
    /\ []((key = "t" /\ probe = "sent") =>
            (pc = "skip_check" /\ skip_next_poll /\ reads = 0 /\ writes = {}
             /\ LatchUntouched))
    /\ []((key = "t" /\ probe # "sent") => ~skip_next_poll)
    /\ [][(key = "t" /\ pc = "skip_check" /\ pc' # pc) =>
            pc' = (IF probe = "sent" THEN "loop" ELSE "read_regs")]_vars
    /\ [][(key # "t" /\ key' = "t") => UNCHANGED <<coils, hr>>]_vars

\* C9 witness: a probe went out and the poll of the iteration is about to be
\* skipped
C9_ProbeSent ==
    key = "t" /\ probe = "sent" /\ pc = "skip_check" /\ skip_next_poll

\* C10: fail-stop on read errors: if in a poll tick the register read or the
\* coil read fails or returns an error response, or the coil response has
\* fewer than 2 bits, the control loop terminates in that iteration without
\* issuing any coil write and without changing the Activation-A state, and no
\* later poll is attempted.
C10_FailStop ==
    /\ [](read_failed => (pc = "done" /\ writes = {} /\ LatchUntouched))
    /\ [](pc \in {"arm", "arm_timer", "count", "deact", "pump", "valve",
                  "report"} =>
            (rr.st = "ok" /\ rc.st = "ok" /\ Len(rc.data) = 2))
    /\ [][read_failed => (read_failed' /\ UNCHANGED <<pc, reads, writes, coils>>)]_vars

\* C10 witness: both reads were issued, one was bad, the loop is left
C10_Stopped ==
    read_failed /\ pc = "done" /\ reads = 2

\* a step of lines 66-113: a character is read and dispatched
KeyStep == pc = "loop" /\ pc' = "skip_check" /\ key' # ""

\* C11: after any sequence of operator commands (a, p, v, f, d) interleaved
\* with poll ticks, auto_control = true implies pump_override = none: turning
\* auto ON clears pump_override, and every command that sets pump_override
\* forces auto_control OFF.
C11_AutoExcludesPumpOverride ==
    /\ [](auto_control => pump_override = None)
    /\ [][(~auto_control /\ auto_control') => pump_override' = None]_vars
    /\ [][(pump_override' # pump_override /\ pump_override' # None)
              => ~auto_control']_vars

\* C11 witness: 'a' has turned auto back on after a pump override that had
\* already switched the pump on
C11_AutoBackOn ==
    /\ key = "a" /\ auto_control /\ pump_override = None
    /\ coils[0]

\* C20: the valve override is irreversible: once 'v', 'f' or 'd' has set
\* valve_override to true or false, no sequence of operator commands ('a'
\* included) returns it to none; 'v' only cycles none->true, true->false,
\* false->true, and neither 'a' nor 'p' changes valve_override.
C20_ValveOverrideIrreversible ==
    /\ [][valve_override # None => valve_override' # None]_vars
    /\ [][(KeyStep /\ key' = "v") =>
             valve_override' = (IF valve_override = None THEN Some(TRUE)
                                ELSE IF valve_override = Some(TRUE)
                                     THEN Some(FALSE)
                                ELSE Some(TRUE))]_vars
    /\ [][(KeyStep /\ key' \in {"a", "p"}) => UNCHANGED valve_override]_vars

\* C20 witness: 'a' has been handled with a valve override in place
C20_AWithValveOverride ==
    key = "a" /\ valve_override = Some(FALSE)

\* the overrides 'f' leaves behind, and those 'd' leaves behind
FillForced == pump_override = Some(TRUE) /\ valve_override = Some(FALSE)
DrainForced == pump_override = Some(FALSE) /\ valve_override = Some(TRUE)

\* C12: force-fill and force-drain take effect within one poll tick: after
\* 'f' (resp. 'd') is processed and the poll tick of that iteration completes
\* with successful reads and writes, the store's coils are pump ON, valve
\* CLOSED (resp. pump OFF, valve OPEN), and they stay so until the next
\* operator command, whatever the level and however the simulator ticks
\* interleave.
C12_ForceWithinOneTick ==
    /\ []((pc = "report" /\ key = "f" /\ lost = {}) =>
            (FillForced /\ coils[0] /\ ~coils[1]))
    /\ []((pc = "report" /\ key = "d" /\ lost = {}) =>
            (DrainForced /\ ~coils[0] /\ coils[1]))
    /\ [][(FillForced /\ coils[0] /\ ~coils[1]) => coils' = coils]_vars
    /\ [][(DrainForced /\ ~coils[0] /\ coils[1]) => coils' = coils]_vars

\* C12 witness: 'f' after a completed force-drain has turned both coils
\* round in its own poll tick
C12_FillAfterDrain ==
    /\ pc = "report" /\ key = "f" /\ lost = {}
    /\ writes = {<<0, TRUE>>, <<1, FALSE>>}
    /\ coils[0] /\ ~coils[1]

\* C13: cooperative cancellation: after 'q' is processed the control loop
\* terminates at the next check of the exit flag, which happens once per
\* iteration; the controller performs at most one more sensor poll/act cycle
\* after 'q' (the remainder of the iteration that read 'q') and starts no
\* further iteration.
C13_QuitAtNextCheck ==
    /\ [](exit_flag => (key = "q" \/ pc \in {"loop", "done"}))
    /\ [][exit_flag => exit_flag']_vars
    /\ [][(exit_flag /\ pc = "loop") => pc' \in {"loop", "done"}]_vars
    /\ [][(exit_flag /\ pc = "done") => pc' = "done"]_vars

\* C13 witness: the iteration that read 'q' has gone on to a full poll
C13_PollAfterQuit == exit_flag /\ key = "q" /\ pc = "report" /\ reads = 2

\* C15: the two actors write disjoint parts of the store: a simulator tick
\* changes only holding register 0 and leaves every coil unchanged; a
\* controller iteration changes only coils 0 and 1 and leaves register 0
\* unchanged. Hence the pump and valve coils change only as the result of a
\* controller write_coil.
C15_DisjointWrites ==
    /\ [][sim_pc' # sim_pc => coils' = coils]_vars
    /\ [][pc' # pc => hr' = hr]_vars
    /\ [][hr' # hr => (sim_pc = "write_level" /\ sim_pc' = "read_coils")]_vars
    /\ [][coils' # coils =>
            /\ pc \in {"pump", "valve"} /\ pc' # pc
            /\ \E w \in writes' \ writes :
                  coils' = [coils EXCEPT ![w[1]] = w[2]]]_vars

\* C15 witness: the controller has switched the pump on and a simulator tick
\* has raised the level since
C15_BothHaveWritten ==
    /\ <<0, TRUE>> \in writes /\ coils[0] /\ ~coils[1]
    /\ hr = 500 + PUMP_RATE

\* the writes of the current poll tick to coil a
WritesTo(a) == {w \in writes : w[1] = a}

\* at most one write per coil in a poll tick, the pump write at line 160 and
\* the valve write, after it, at line 165
OneWriteEachPumpFirst ==
    /\ [](\A a \in 0..1 : Cardinality(WritesTo(a)) <= 1)
    /\ [](WritesTo(0) # {} => pc \in {"valve", "report"})
    /\ [](WritesTo(1) # {} => pc = "report")
    /\ [][\A w \in writes' \ writes :
            (w[1] = 0 => pc = "pump") /\ (w[1] = 1 => pc = "valve")]_vars

\* both coils were written in the current poll tick and the store holds the
\* new valve value with the old pump value
NewValveOldPump ==
    /\ WritesTo(0) # {} /\ WritesTo(1) # {}
    /\ coils[1] = valve_override[1]
    /\ coils[0] # target_pump

AutoRunning ==
    /\ auto_control /\ pump_override = None
    /\ keys_left = 0 /\ ~exit_flag /\ pc # "done"

C18_QuietWithoutInput ==
    keys_left = MaxKeys =>
        /\ writes = {} /\ lost = {}
        /\ ~coils[0] /\ ~coils[1]
        /\ hr = 500
        /\ auto_control /\ pump_override = None /\ valve_override = None

\* C18 witness: without any command the simulator has ticked twice and a
\* poll has run through its pump and valve decisions
C18_PolledAndTicked ==
    /\ keys_left = MaxKeys /\ pc = "report" /\ reads = 2
    /\ prev_new = 500 /\ last_new = 500

\* C19: at the end of each completed poll tick the controller reports the
\* resulting state: the reported pump value equals the pump target of that
\* tick and the reported valve value equals the value of coil 1 after that
\* tick's writes (valve_override when a valve write was issued).
C19_ReportsResultingState ==
    pc = "report" =>
        /\ LoggedPump = target_pump
        /\ LoggedValve = (IF WritesTo(1) # {} THEN valve_override[1]
                          ELSE valve_state)

====
